---- MODULE Spec2Model ----
(***************************************************************************)
(* Model of the hal-steam-tools plugin (src/src/workshop.rs, src/src/lib.rs)*)
(*                                                                         *)
(* Threads: one worker thread per get_workshop_item invocation, one        *)
(* dispatching thread per inbound "need-wokrshop-item" event, one thread   *)
(* per get_subscribed_workshop_items invocation, and the host event-loop   *)
(* thread that runs SingleClient::run_callbacks on MainEventsCleared.      *)
(* The steamworks SDK is the environment: it accepts or rejects a query,   *)
(* completes an accepted query at some later time, and hands an arbitrary  *)
(* result to the registered callback during run_callbacks.                 *)
(***************************************************************************)
EXTENDS Integers, Sequences, FiniteSets, TLC

\* ---------------------------------------------------------------- bounds
MaxCalls == 2       \* get_workshop_item invocations
MaxEvents == 1      \* inbound need-wokrshop-item events
MaxScans == 2       \* get_subscribed_workshop_items invocations
MaxId == 2          \* published file ids are 1..MaxId
MaxOps == 2         \* operations the host starts in one run, of any kind
MaxSubscribed == 2  \* length of client.ugc().subscribed_items()
MaxLibraries == 2   \* length of libraryfolders.paths

Calls == 1..MaxCalls
Events == 1..MaxEvents
Scans == 1..MaxScans
Ids == 1..MaxId

\* ---------------------------------------------------------------- threads
NoThread == <<"none", 0>>
CallThread(c) == <<"call", c>>
EventThread(e) == <<"event", e>>
ScanThread(s) == <<"scan", s>>
QueryThreads == {CallThread(c) : c \in Calls} \cup {EventThread(e) : e \in Events}

\* ---------------------------------------------------------------- values
\* Option<Result<WokrshopItem, String>>
NoneSlot == [tag |-> "None"]
SomeErr(msg) == [tag |-> "Err", msg |-> msg]
SomeOk(item) == [tag |-> "Ok", item |-> item]

\* Option<T>: None is <<>>, Some(v) is <<v>>
None == <<>>
Some(v) == <<v>>
NoPreview == None
Previews == {None, Some("https://preview/0")}
NoRecord == [present |-> FALSE]
Record(id) == [present |-> TRUE, published_file_id |-> id,
               title |-> "Example Mod", description |-> ""]

\* What the SDK hands to the fetch callback: Err(SteamError) or Ok(QueryResults)
SteamErrors == {"IOFailure"}
SdkResults ==
    {[tag |-> "Err", err |-> e] : e \in SteamErrors}
    \cup {[tag |-> "Ok", rec |-> NoRecord, preview |-> NoPreview]}
    \cup {[tag |-> "Ok", rec |-> Record(i), preview |-> p] : i \in Ids, p \in Previews}

\* no callback of the query has been called yet
NotDelivered == [tag |-> "NotDelivered"]

VARIABLES
    clientHolder,    \* holder of SteamWorks.client (Mutex<Client>)
    clientPoisoned,  \* poison flag of SteamWorks.client
    pumpPc,          \* event-loop thread: "idle" or "running" (inside run_callbacks)
    pumpHolder,      \* holder of SteamWorks.single_client
    queries,         \* SDK: query of each submitting thread
    callPc, callId, result, slot, slotHolder, ret,
    slotWrites,      \* history: assignments made to each call's slot
    waited,          \* history: the call has blocked on its Condvar
    lockTries,       \* history: state.client.lock() calls made by each call
    relayPc, relayId, relayResult,
    emitted,         \* outbound got-wokrshop-item payloads, in order
    logged,          \* error! lines written per inbound event
    scanPc, scanOut,
    delivered,       \* history: what the SDK handed to each fetch callback
    queryItemCalls,  \* history: query_item calls made on the SDK
    relayPayload,    \* history: payload of each inbound event
    emittedBy,       \* history: payloads emitted by the callback of each event
    scanIn,          \* history: the SDK's local state each scan has read
    steam,           \* get_hoi_folder: what steamlocate and the disk show
    hoiPc, hoiOut    \* get_hoi_folder: position and returned value

vars == <<clientHolder, clientPoisoned, pumpPc, pumpHolder, queries,
          callPc, callId, result, slot, slotHolder, ret, slotWrites, waited,
          lockTries, relayPc, relayId, relayResult, emitted, logged, scanPc, scanOut,
          delivered, queryItemCalls, relayPayload, emittedBy, scanIn,
          steam, hoiPc, hoiOut>>

callVars == <<callPc, callId, result, slot, slotHolder, ret, slotWrites, waited,
              lockTries>>
relayVars == <<relayPc, relayId, relayResult, emitted, logged, relayPayload,
               emittedBy>>
scanVars == <<scanPc, scanOut, scanIn>>
sdkVars == <<delivered, queryItemCalls>>
hoiVars == <<steam, hoiPc, hoiOut>>
pumpVars == <<pumpPc, pumpHolder>>
clientVars == <<clientHolder, clientPoisoned>>

\* ---------------------------------------------------------------- payload
\* event.payload() is Option<&str>; a string is a sequence of characters
NoPayload == <<"<null>">>
Digits == <<"0", "1", "2", "3", "4", "5", "6", "7", "8", "9">>
IsDigit(ch) == \E i \in 1..10 : Digits[i] = ch
DigitVal(ch) == (CHOOSE i \in 1..10 : Digits[i] = ch) - 1

RECURSIVE DigitsValue(_, _)
DigitsValue(s, acc) ==
    IF s = <<>> THEN acc ELSE DigitsValue(Tail(s), acc * 10 + DigitVal(Head(s)))

\* payload.parse::<u64>(): an optional leading "+", then one or more decimal digits
ParseU64(s) ==
    LET body == IF s # <<>> /\ Head(s) = "+" THEN Tail(s) ELSE s
    IN  IF body = <<>> \/ \E i \in 1..Len(body) : ~IsDigit(body[i])
        THEN [ok |-> FALSE, val |-> 0]
        ELSE [ok |-> TRUE, val |-> DigitsValue(body, 0)]

Payloads == {NoPayload, <<"a", "b", "c">>, <<"0">>, <<"1">>}

\* ---------------------------------------------------------------- callback
\* info.get(0).map(|item| WokrshopItem { .. }) with preview = info.preview_url(0)
BuildItem(info) ==
    IF info.rec.present
    THEN [present |-> TRUE,
          item |-> [id |-> info.rec.published_file_id,
                    name |-> info.rec.title,
                    description |-> Some(info.rec.description),
                    preview |-> info.preview]]
    ELSE [present |-> FALSE]

\* a callback that hands the Option over without the is_none check
CallbackFillsUnchecked(x) ==
    IF x.tag = "Err" THEN <<SomeErr(x.err)>> ELSE <<SomeOk(BuildItem(x))>>

\* The assignments the fetch callback of get_workshop_item makes to its slot,
\* in order, when the SDK calls it with x
CallbackFills(x) ==
    IF x.tag = "Err" THEN <<SomeErr(x.err)>>
    ELSE IF ~BuildItem(x).present THEN <<SomeErr("item is null")>>
    ELSE <<SomeOk(BuildItem(x).item)>>

\* one slot shared by every call
SharedSlot(c) == 1

\* The slot the callback registered by call c closes over (condvar.clone())
CallbackSlot(c) == c

\* a callback that emits the Option without the is_none check
RelayEmitsUnchecked(x) ==
    IF x.tag = "Err" THEN <<>> ELSE <<BuildItem(x)>>

\* The events the fetch callback of need_workshop_item emits when called with x
RelayEmits(x) ==
    IF x.tag = "Err" THEN <<>>
    ELSE IF ~BuildItem(x).present THEN <<>>
    ELSE <<BuildItem(x).item>>

\* The error! lines the fetch callback of need_workshop_item writes
RelayCallbackLogs(x) == IF RelayEmits(x) = <<>> THEN 1 ELSE 0

\* ---------------------------------------------------------------- get_workshop_item
\* .map(..).map_err(|err| format!("Cannot query item: {err}"))
SubmitResult(accepted) ==
    IF accepted THEN [tag |-> "Ok"] ELSE SomeErr("Cannot query item")

\* a lock that hands out the guard of a poisoned mutex as if it were sound
LockIgnoresPoison(poisoned) == FALSE

\* Mutex::lock returns Err(PoisonError) exactly when the mutex is poisoned
LockFails(poisoned) == poisoned

\* the guard bound to a local that lives to the end of the function
HolderToFunctionEnd(t) == t

\* The client guard is a temporary of the `let result = if let .. ;` statement:
\* it is dropped when that statement ends
HolderAfterLet(t) == NoThread

\* the submission result ignored instead of propagated
AfterResultIgnored(r) == "lock_slot"

\* `result?;` decides where the call goes after the let statement
AfterResult(r) == IF r.tag = "Err" THEN "returned" ELSE "lock_slot"

\* a wait whose predicate never asks to park
NeverWaitPredicate(x) == FALSE

\* wait_while(guard, |x| x.is_none())
WaitPredicate(x) == x = NoneSlot

\* a parked thread that keeps the slot mutex
SlotKeptWhileParked(t) == t

\* Condvar::wait releases the slot mutex while the thread is parked
SlotHolderWhileParked(t) == NoThread

\* a callback that fills the slot and never notifies
PcWithoutNotify(p) == p

\* notify_all() wakes a thread parked on the Condvar
PcAfterNotify(p) == IF p = "waiting" THEN "woken" ELSE p

\* operations the host has started so far; the threads of one kind are
\* interchangeable, so they are numbered in the order in which they start
Started ==
    Cardinality({c \in Calls : callPc[c] # "idle"})
    + Cardinality({e \in Events : relayPc[e] # "idle"})
    + Cardinality({s \in Scans : scanPc[s] # "idle"})

PluginInit ==
    /\ clientHolder = NoThread
    /\ clientPoisoned = FALSE
    /\ pumpPc = "idle"
    /\ pumpHolder = NoThread
    /\ queries = [t \in QueryThreads |-> "none"]
    /\ callPc = [c \in Calls |-> "idle"]
    /\ callId = [c \in Calls |-> 0]
    /\ result = [c \in Calls |-> [tag |-> "unset"]]
    /\ slot = [c \in Calls |-> NoneSlot]
    /\ slotHolder = [c \in Calls |-> NoThread]
    /\ ret = [c \in Calls |-> [tag |-> "unset"]]
    /\ slotWrites = [c \in Calls |-> 0]
    /\ waited = [c \in Calls |-> FALSE]
    /\ lockTries = [c \in Calls |-> 0]
    /\ relayPc = [e \in Events |-> "idle"]
    /\ relayId = [e \in Events |-> 0]
    /\ relayResult = [e \in Events |-> [tag |-> "unset"]]
    /\ emitted = <<>>
    /\ logged = [e \in Events |-> 0]
    /\ scanPc = [s \in Scans |-> "idle"]
    /\ scanOut = [s \in Scans |-> <<>>]
    /\ delivered = [t \in QueryThreads |-> NotDelivered]
    /\ queryItemCalls = 0
    /\ relayPayload = [e \in Events |-> NoPayload]
    /\ emittedBy = [e \in Events |-> <<>>]
    /\ scanIn = [s \in Scans |-> <<>>]
    /\ hoiPc = "idle"
    /\ hoiOut = [tag |-> "unset"]

\* the plugin runs; get_hoi_folder is not called and nothing is known of the disk
Init == PluginInit /\ steam = None

\* invoke("get_workshop_item", id): the fresh Arc<(Mutex<None>, Condvar)>
Call(c, id) ==
    /\ callPc[c] = "idle"
    /\ \A b \in Calls : b < c => callPc[b] # "idle"
    /\ Started < MaxOps
    /\ callPc' = [callPc EXCEPT ![c] = "lock_client"]
    /\ callId' = [callId EXCEPT ![c] = id]
    /\ slot' = [slot EXCEPT ![c] = NoneSlot]
    /\ UNCHANGED <<result, slotHolder, ret, slotWrites, waited, lockTries>>
    /\ UNCHANGED <<clientVars, pumpVars, queries, relayVars, scanVars>>
    /\ UNCHANGED <<sdkVars, hoiVars>>

\* state.client.lock(): blocks while held; Err(PoisonError(guard)) when poisoned,
\* and the else branch then builds Err("client is null")
LockClient(c) ==
    /\ callPc[c] = "lock_client"
    /\ clientHolder = NoThread
    /\ clientHolder' = CallThread(c)
    /\ lockTries' = [lockTries EXCEPT ![c] = @ + 1]
    /\ IF LockFails(clientPoisoned)
       THEN /\ result' = [result EXCEPT ![c] = SomeErr("client is null")]
            /\ callPc' = [callPc EXCEPT ![c] = "end_let"]
       ELSE /\ callPc' = [callPc EXCEPT ![c] = "query"]
            /\ UNCHANGED result
    /\ UNCHANGED <<callId, slot, slotHolder, ret, slotWrites, waited>>
    /\ UNCHANGED <<clientPoisoned, pumpVars, queries, relayVars, scanVars>>
    /\ UNCHANGED <<sdkVars, hoiVars>>

\* a submission that answers from the filled slot of an earlier call for the
\* same id, when there is one, instead of asking the SDK
QueryCached(c) ==
    /\ callPc[c] = "query"
    /\ IF \E d \in Calls : d # c /\ callId[d] = callId[c] /\ slot[d] # NoneSlot
       THEN /\ \E d \in Calls :
                /\ d # c /\ callId[d] = callId[c] /\ slot[d] # NoneSlot
                /\ slot' = [slot EXCEPT ![c] = slot[d]]
            /\ result' = [result EXCEPT ![c] = SubmitResult(TRUE)]
            /\ UNCHANGED <<queries, queryItemCalls>>
       ELSE /\ \E accepted \in BOOLEAN :
                /\ result' = [result EXCEPT ![c] = SubmitResult(accepted)]
                /\ queries' = [queries EXCEPT ![CallThread(c)] =
                                  IF accepted THEN "pending" ELSE @]
            /\ queryItemCalls' = queryItemCalls + 1
            /\ UNCHANGED slot
    /\ callPc' = [callPc EXCEPT ![c] = "end_let"]
    /\ UNCHANGED <<callId, slotHolder, ret, slotWrites, waited, lockTries>>
    /\ UNCHANGED <<clientVars, pumpVars, relayVars, scanVars>>
    /\ UNCHANGED <<delivered, hoiVars>>

\* client.ugc().query_item(id).map(|query| query.fetch(callback)).map_err(..)
Query(c) ==
    /\ callPc[c] = "query"
    /\ \E accepted \in BOOLEAN :
        /\ result' = [result EXCEPT ![c] = SubmitResult(accepted)]
        /\ queries' = [queries EXCEPT ![CallThread(c)] =
                          IF accepted THEN "pending" ELSE @]
    /\ callPc' = [callPc EXCEPT ![c] = "end_let"]
    /\ UNCHANGED <<callId, slot, slotHolder, ret, slotWrites, waited, lockTries>>
    /\ UNCHANGED <<clientVars, pumpVars, relayVars, scanVars>>
    /\ queryItemCalls' = queryItemCalls + 1
    /\ UNCHANGED <<delivered, hoiVars>>

\* end of the let statement (the guard drops), then `result?;`
EndLet(c) ==
    /\ callPc[c] = "end_let"
    /\ clientHolder' = HolderAfterLet(CallThread(c))
    /\ callPc' = [callPc EXCEPT ![c] = AfterResult(result[c])]
    /\ ret' = [ret EXCEPT ![c] = IF AfterResult(result[c]) = "returned"
                                 THEN result[c] ELSE @]
    /\ UNCHANGED <<callId, result, slot, slotHolder, slotWrites, waited, lockTries>>
    /\ UNCHANGED <<clientPoisoned, pumpVars, queries, relayVars, scanVars>>
    /\ UNCHANGED <<sdkVars, hoiVars>>

\* condvar.0.lock(), at the first entry of wait_while and again after a wake-up
LockSlot(c) ==
    /\ callPc[c] \in {"lock_slot", "woken"}
    /\ slotHolder[c] = NoThread
    /\ slotHolder' = [slotHolder EXCEPT ![c] = CallThread(c)]
    /\ callPc' = [callPc EXCEPT ![c] = "check"]
    /\ UNCHANGED <<callId, result, slot, ret, slotWrites, waited, lockTries>>
    /\ UNCHANGED <<clientVars, pumpVars, queries, relayVars, scanVars>>
    /\ UNCHANGED <<sdkVars, hoiVars>>

\* a plain Condvar::wait: the first turn parks without looking at the slot
CheckAfterWaitOnly(c) ==
    /\ callPc[c] = "check"
    /\ IF ~waited[c] \/ WaitPredicate(slot[c])
       THEN /\ callPc' = [callPc EXCEPT ![c] = "waiting"]
            /\ slotHolder' = [slotHolder EXCEPT ![c] =
                                 SlotHolderWhileParked(CallThread(c))]
            /\ waited' = [waited EXCEPT ![c] = TRUE]
            /\ UNCHANGED <<ret, clientHolder>>
       ELSE /\ callPc' = [callPc EXCEPT ![c] = "returned"]
            /\ slotHolder' = [slotHolder EXCEPT ![c] = NoThread]
            /\ ret' = [ret EXCEPT ![c] = slot[c]]
            /\ clientHolder' = IF clientHolder = CallThread(c)
                               THEN NoThread ELSE clientHolder
            /\ UNCHANGED waited
    /\ UNCHANGED <<callId, result, slot, slotWrites, lockTries>>
    /\ UNCHANGED <<clientPoisoned, pumpVars, queries, relayVars, scanVars>>
    /\ UNCHANGED <<sdkVars, hoiVars>>

\* one turn of wait_while under the slot lock: park, or clone the slot and return
\* (every guard the function still holds drops at the return)
Check(c) ==
    /\ callPc[c] = "check"
    /\ IF WaitPredicate(slot[c])
       THEN /\ callPc' = [callPc EXCEPT ![c] = "waiting"]
            /\ slotHolder' = [slotHolder EXCEPT ![c] =
                                 SlotHolderWhileParked(CallThread(c))]
            /\ waited' = [waited EXCEPT ![c] = TRUE]
            /\ UNCHANGED <<ret, clientHolder>>
       ELSE /\ callPc' = [callPc EXCEPT ![c] = "returned"]
            /\ slotHolder' = [slotHolder EXCEPT ![c] = NoThread]
            /\ ret' = [ret EXCEPT ![c] = slot[c]]
            /\ clientHolder' = IF clientHolder = CallThread(c)
                               THEN NoThread ELSE clientHolder
            /\ UNCHANGED waited
    /\ UNCHANGED <<callId, result, slot, slotWrites, lockTries>>
    /\ UNCHANGED <<clientPoisoned, pumpVars, queries, relayVars, scanVars>>
    /\ UNCHANGED <<sdkVars, hoiVars>>

\* Condvar::wait may return without a notification
SpuriousWake(c) ==
    /\ callPc[c] = "waiting"
    /\ callPc' = [callPc EXCEPT ![c] = "woken"]
    /\ UNCHANGED <<callId, result, slot, slotHolder, ret, slotWrites, waited, lockTries>>
    /\ UNCHANGED <<clientVars, pumpVars, queries, relayVars, scanVars>>
    /\ UNCHANGED <<sdkVars, hoiVars>>

\* ---------------------------------------------------------------- need_workshop_item
\* listen_global handler: payload and parse checks (both log and return)
Dispatch(e, payload) ==
    /\ relayPc[e] = "idle"
    /\ \A b \in Events : b < e => relayPc[b] # "idle"
    /\ Started < MaxOps
    /\ IF payload = NoPayload \/ ~ParseU64(payload).ok
       THEN /\ relayPc' = [relayPc EXCEPT ![e] = "done"]
            /\ logged' = [logged EXCEPT ![e] = @ + 1]
            /\ UNCHANGED relayId
       ELSE /\ relayPc' = [relayPc EXCEPT ![e] = "lock_client"]
            /\ relayId' = [relayId EXCEPT ![e] = ParseU64(payload).val]
            /\ UNCHANGED logged
    /\ relayPayload' = [relayPayload EXCEPT ![e] = payload]
    /\ UNCHANGED <<relayResult, emitted, emittedBy>>
    /\ UNCHANGED <<clientVars, pumpVars, queries, callVars, scanVars>>
    /\ UNCHANGED <<sdkVars, hoiVars>>

\* let Ok(client) = state.client.lock() else { error!(..); return; }
RelayLock(e) ==
    /\ relayPc[e] = "lock_client"
    /\ clientHolder = NoThread
    /\ IF clientPoisoned
       THEN /\ relayPc' = [relayPc EXCEPT ![e] = "done"]
            /\ logged' = [logged EXCEPT ![e] = @ + 1]
            /\ UNCHANGED clientHolder
       ELSE /\ relayPc' = [relayPc EXCEPT ![e] = "query"]
            /\ clientHolder' = EventThread(e)
            /\ UNCHANGED logged
    /\ UNCHANGED <<relayId, relayResult, emitted, relayPayload, emittedBy>>
    /\ UNCHANGED <<clientPoisoned, pumpVars, queries, callVars, scanVars>>
    /\ UNCHANGED <<sdkVars, hoiVars>>

\* client.ugc().query_item(id).map(|query| query.fetch(callback))
RelayQuery(e) ==
    /\ relayPc[e] = "query"
    /\ \E accepted \in BOOLEAN :
        /\ relayResult' = [relayResult EXCEPT ![e] =
                              IF accepted THEN [tag |-> "Ok"]
                              ELSE [tag |-> "Err"]]
        /\ queries' = [queries EXCEPT ![EventThread(e)] =
                          IF accepted THEN "pending" ELSE @]
    /\ relayPc' = [relayPc EXCEPT ![e] = "end_fn"]
    /\ UNCHANGED <<relayId, emitted, logged, relayPayload, emittedBy>>
    /\ UNCHANGED <<clientVars, pumpVars, callVars, scanVars>>
    /\ queryItemCalls' = queryItemCalls + 1
    /\ UNCHANGED <<delivered, hoiVars>>

\* a handler that keeps the client guard until its query has been answered
RelayReturnAfterAnswer(e) ==
    /\ relayPc[e] = "end_fn"
    /\ queries[EventThread(e)] \in {"none", "fired"}
    /\ logged' = [logged EXCEPT ![e] =
                     IF relayResult[e].tag = "Err" THEN @ + 1 ELSE @]
    /\ clientHolder' = NoThread
    /\ relayPc' = [relayPc EXCEPT ![e] = "done"]
    /\ UNCHANGED <<relayId, relayResult, emitted, relayPayload, emittedBy>>
    /\ UNCHANGED <<clientPoisoned, pumpVars, queries, callVars, scanVars>>
    /\ UNCHANGED <<sdkVars, hoiVars>>

\* if let Err(err) = result { error!(..) }, then the function ends and the
\* client guard drops
RelayReturn(e) ==
    /\ relayPc[e] = "end_fn"
    /\ logged' = [logged EXCEPT ![e] =
                     IF relayResult[e].tag = "Err" THEN @ + 1 ELSE @]
    /\ clientHolder' = NoThread
    /\ relayPc' = [relayPc EXCEPT ![e] = "done"]
    /\ UNCHANGED <<relayId, relayResult, emitted, relayPayload, emittedBy>>
    /\ UNCHANGED <<clientPoisoned, pumpVars, queries, callVars, scanVars>>
    /\ UNCHANGED <<sdkVars, hoiVars>>

\* ---------------------------------------------------------------- get_subscribed_workshop_items
InstallInfo(id) == [folder |-> <<"workshop", id>>, size_on_disk |-> id * 10]
SubscribedEntries ==
    UNION {{[id |-> i, installed |-> b, info |-> n] :
               b \in BOOLEAN, n \in {None, Some(InstallInfo(i))}} : i \in Ids}

\* The SDK's local state: the subscribed ids in order, each with its item_state
\* and its item_install_info
ScanInputs ==
    {s \in UNION {[1..n -> SubscribedEntries] : n \in 0..MaxSubscribed} :
        \A i, j \in 1..Len(s) : i # j => s[i].id # s[j].id}

\* a loop that keeps every subscribed id, whatever its state
EverySubscribed(s) == s

\* the for loop: ids whose state contains ItemState::INSTALLED
RECURSIVE InstalledOf(_)
InstalledOf(s) ==
    IF s = <<>> THEN <<>>
    ELSE IF Head(s).installed THEN <<Head(s)>> \o InstalledOf(Tail(s))
    ELSE InstalledOf(Tail(s))

\* item_install_info(x).unwrap() panics on None
ScanPanics(s) == \E i \in 1..Len(InstalledOf(s)) : InstalledOf(s)[i].info = None

ScanItems(s) ==
    [i \in 1..Len(InstalledOf(s)) |->
        [id |-> InstalledOf(s)[i].id,
         path |-> InstalledOf(s)[i].info[1].folder,
         size_on_disk |-> InstalledOf(s)[i].info[1].size_on_disk]]

ScanCall(s) ==
    /\ scanPc[s] = "idle"
    /\ \A b \in Scans : b < s => scanPc[b] # "idle"
    /\ Started < MaxOps
    /\ scanPc' = [scanPc EXCEPT ![s] = "lock_client"]
    /\ UNCHANGED <<scanOut, scanIn>>
    /\ UNCHANGED <<clientVars, pumpVars, queries, callVars, relayVars>>
    /\ UNCHANGED <<sdkVars, hoiVars>>

\* let Ok(client) = state.client.lock() else { panic!("client is null") }
ScanLock(s) ==
    /\ scanPc[s] = "lock_client"
    /\ clientHolder = NoThread
    /\ IF clientPoisoned
       THEN /\ scanPc' = [scanPc EXCEPT ![s] = "panicked"]
            /\ UNCHANGED clientHolder
       ELSE /\ scanPc' = [scanPc EXCEPT ![s] = "scan"]
            /\ clientHolder' = ScanThread(s)
    /\ UNCHANGED <<scanOut, scanIn>>
    /\ UNCHANGED <<clientPoisoned, pumpVars, queries, callVars, relayVars>>
    /\ UNCHANGED <<sdkVars, hoiVars>>

\* a body that skips an installed id without install info and goes on
ScanRunSkipping(s) ==
    /\ scanPc[s] = "scan"
    /\ \E input \in ScanInputs :
        /\ scanIn' = [scanIn EXCEPT ![s] = input]
        /\ scanOut' = [scanOut EXCEPT ![s] =
                          ScanItems(SelectSeq(input, LAMBDA r : r.info # None))]
    /\ scanPc' = [scanPc EXCEPT ![s] = "returned"]
    /\ clientHolder' = NoThread
    /\ UNCHANGED <<clientPoisoned, pumpVars, queries, callVars, relayVars>>
    /\ UNCHANGED <<sdkVars, hoiVars>>

\* a body that has dropped the client guard before it unwraps the install info
ScanRunAfterRelease(s) ==
    /\ scanPc[s] = "scan"
    /\ \E input \in ScanInputs :
        /\ scanIn' = [scanIn EXCEPT ![s] = input]
        /\ IF ScanPanics(input)
           THEN /\ scanPc' = [scanPc EXCEPT ![s] = "panicked"]
                /\ UNCHANGED scanOut
           ELSE /\ scanPc' = [scanPc EXCEPT ![s] = "returned"]
                /\ scanOut' = [scanOut EXCEPT ![s] = ScanItems(input)]
    /\ clientHolder' = NoThread
    /\ UNCHANGED <<clientPoisoned, pumpVars, queries, callVars, relayVars>>
    /\ UNCHANGED <<sdkVars, hoiVars>>

\* the body, run with the client guard held to the end of the function; a panic
\* unwinds through the guard and poisons the mutex
ScanRun(s) ==
    /\ scanPc[s] = "scan"
    /\ \E input \in ScanInputs :
        /\ scanIn' = [scanIn EXCEPT ![s] = input]
        /\ IF ScanPanics(input)
           THEN /\ scanPc' = [scanPc EXCEPT ![s] = "panicked"]
                /\ clientPoisoned' = TRUE
                /\ UNCHANGED scanOut
           ELSE /\ scanPc' = [scanPc EXCEPT ![s] = "returned"]
                /\ scanOut' = [scanOut EXCEPT ![s] = ScanItems(input)]
                /\ UNCHANGED clientPoisoned
    /\ clientHolder' = NoThread
    /\ UNCHANGED <<pumpVars, queries, callVars, relayVars>>
    /\ UNCHANGED <<sdkVars, hoiVars>>

\* ---------------------------------------------------------------- SDK and pump
PumpThread == <<"pump", 0>>

\* the network answer to a submitted query arrives
SdkComplete(t) ==
    /\ queries[t] = "pending"
    /\ queries' = [queries EXCEPT ![t] = "ready"]
    /\ UNCHANGED <<clientVars, pumpVars, callVars, relayVars, scanVars>>
    /\ UNCHANGED <<sdkVars, hoiVars>>

\* RunEvent::MainEventsCleared: single_client.lock(), entering run_callbacks
TickBegin ==
    /\ pumpPc = "idle"
    /\ pumpHolder = NoThread
    /\ pumpHolder' = PumpThread
    /\ pumpPc' = "running"
    /\ UNCHANGED <<clientVars, queries, callVars, relayVars, scanVars>>
    /\ UNCHANGED <<sdkVars, hoiVars>>

\* a callback the SDK keeps and calls again on the next dispatch
QueryKeptAfterDispatch(q) == q

\* a fetch callback is FnOnce: the SDK drops it once it has been called
QueryAfterDispatch(q) == "fired"

\* run_callbacks calls the callback of get_workshop_item call c: each fill is
\* `*condvar.0.lock().unwrap() = ..; condvar.1.notify_all();`
RunCallCallback(c) ==
    /\ pumpPc = "running"
    /\ queries[CallThread(c)] = "ready"
    /\ slotHolder[CallbackSlot(c)] = NoThread
    /\ \E x \in SdkResults :
        LET fills == CallbackFills(x)
            k == CallbackSlot(c)
        IN  /\ slot' = [slot EXCEPT ![k] = fills[Len(fills)]]
            /\ slotWrites' = [slotWrites EXCEPT ![k] = @ + Len(fills)]
            /\ callPc' = [callPc EXCEPT ![k] = PcAfterNotify(@)]
            /\ delivered' = [delivered EXCEPT ![CallThread(c)] = x]
    /\ queries' = [queries EXCEPT ![CallThread(c)] = QueryAfterDispatch(@)]
    /\ UNCHANGED <<callId, result, slotHolder, ret, waited, lockTries>>
    /\ UNCHANGED <<clientVars, pumpVars, relayVars, scanVars>>
    /\ UNCHANGED <<queryItemCalls, hoiVars>>

\* run_callbacks calls the callback of need_workshop_item event e
RunRelayCallback(e) ==
    /\ pumpPc = "running"
    /\ queries[EventThread(e)] = "ready"
    /\ \E x \in SdkResults :
        /\ emitted' = emitted \o RelayEmits(x)
        /\ emittedBy' = [emittedBy EXCEPT ![e] = @ \o RelayEmits(x)]
        /\ delivered' = [delivered EXCEPT ![EventThread(e)] = x]
        /\ logged' = [logged EXCEPT ![e] = @ + RelayCallbackLogs(x)]
    /\ queries' = [queries EXCEPT ![EventThread(e)] = QueryAfterDispatch(@)]
    /\ UNCHANGED <<relayPc, relayId, relayResult, relayPayload>>
    /\ UNCHANGED <<clientVars, pumpVars, callVars, scanVars>>
    /\ UNCHANGED <<queryItemCalls, hoiVars>>

\* run_callbacks returns once it has dispatched what was ready; the guard drops
TickEnd ==
    /\ pumpPc = "running"
    /\ \A t \in QueryThreads : queries[t] # "ready"
    /\ pumpPc' = "idle"
    /\ pumpHolder' = NoThread
    /\ UNCHANGED <<clientVars, queries, callVars, relayVars, scanVars>>
    /\ UNCHANGED <<sdkVars, hoiVars>>

CallStep(c) ==
    LockClient(c) \/ Query(c) \/ EndLet(c) \/ LockSlot(c) \/ Check(c)
RelayStep(e) == RelayLock(e) \/ RelayQuery(e) \/ RelayReturn(e)
ScanStep(s) == ScanLock(s) \/ ScanRun(s)

Next ==
    \/ \E c \in Calls, id \in Ids : Call(c, id)
    \/ \E c \in Calls : LockClient(c)
    \/ \E c \in Calls : Query(c)
    \/ \E c \in Calls : EndLet(c)
    \/ \E c \in Calls : LockSlot(c)
    \/ \E c \in Calls : Check(c)
    \/ \E c \in Calls : SpuriousWake(c)
    \/ \E e \in Events, payload \in Payloads : Dispatch(e, payload)
    \/ \E e \in Events : RelayLock(e)
    \/ \E e \in Events : RelayQuery(e)
    \/ \E e \in Events : RelayReturn(e)
    \/ \E s \in Scans : ScanCall(s)
    \/ \E s \in Scans : ScanLock(s)
    \/ \E s \in Scans : ScanRun(s)
    \/ \E t \in QueryThreads : SdkComplete(t)
    \/ TickBegin
    \/ \E c \in Calls : RunCallCallback(c)
    \/ \E e \in Events : RunRelayCallback(e)
    \/ TickEnd

Spec == Init /\ [][Next]_vars

\* ---------------------------------------------------------------- fairness
\* Every started thread keeps running, the SDK answers every accepted query, the
\* host keeps delivering MainEventsCleared, and a callback that needs a slot
\* mutex gets it although the parked caller may take it in between.
FairSpec ==
    /\ Spec
    /\ \A c \in Calls : WF_vars(CallStep(c))
    /\ \A e \in Events : WF_vars(RelayStep(e))
    /\ \A s \in Scans : WF_vars(ScanStep(s))
    /\ \A t \in QueryThreads : WF_vars(SdkComplete(t))
    /\ WF_vars(TickBegin)
    /\ WF_vars(TickEnd)
    /\ \A c \in Calls : SF_vars(RunCallCallback(c))
    /\ \A e \in Events : WF_vars(RunRelayCallback(e))

\* ---------------------------------------------------------------- get_hoi_folder
\* A file's content is a sequence of characters
Quote == <<"\"">>
InstalldirKey == <<"i", "n", "s", "t", "a", "l", "l", "d", "i", "r">>
IsSpace(ch) == ch \in {" ", "\t", "\n", "\r"}
SetMax(S) == CHOOSE x \in S : \A y \in S : y <= x
SetMin(S) == CHOOSE x \in S : \A y \in S : x <= y

\* One attempt of the regex installdir"\s+"(.+?)"\n? at position p of s: the
\* literal installdir", the longest run of white space, a quote, then the
\* shortest non-empty run of characters other than \n that a quote follows.
\* The value is the capture of group 1 as an Option.
MatchAt(s, p) ==
    LET lit == InstalldirKey \o Quote
        w == p + Len(lit)
        runs == {e \in w..Len(s) : \A k \in w..e : IsSpace(s[k])}
    IN  IF p + Len(lit) - 1 > Len(s) \/ SubSeq(s, p, p + Len(lit) - 1) # lit
           \/ runs = {}
        THEN None
        ELSE LET c == SetMax(runs) + 2
                 closes == {r \in (c + 1)..Len(s) :
                               /\ s[r] = Quote[1]
                               /\ \A k \in c..(r - 1) : s[k] # "\n"}
             IN  IF c - 1 > Len(s) \/ s[c - 1] # Quote[1] \/ closes = {}
                 THEN None
                 ELSE Some(SubSeq(s, c, SetMin(closes) - 1))

\* .captures_iter(&content).next() and cps.get(1): group 1 of the leftmost match
FirstCapture(s) ==
    LET hits == {p \in 1..Len(s) : MatchAt(s, p) # None}
    IN  IF hits = {} THEN None ELSE MatchAt(s, SetMin(hits))

\* appmanifest_394360.acf files a library folder may hold
DirNames == {<<"A">>, <<"B">>}
QuotedManifest(d) ==
    <<"\t">> \o Quote \o InstalldirKey \o Quote \o <<"\t", "\t">>
    \o Quote \o d \o Quote \o <<"\n">>
BareManifest(d) == InstalldirKey \o <<" ">> \o Quote \o d \o Quote \o <<"\n">>
OtherManifest == Quote \o <<"n", "a", "m", "e">> \o Quote \o <<"\t", "\t">>
                 \o Quote \o <<"A">> \o Quote \o <<"\n">>
Manifests ==
    {QuotedManifest(d) : d \in DirNames} \cup {BareManifest(<<"A">>), OtherManifest}

\* A library folder as the function sees it: its manifest file, if it is a
\* file, and the names under common/ that are directories
LibraryFolders ==
    [manifest : {None} \cup {Some(m) : m \in Manifests}, dirs : SUBSET DirNames]

\* SteamDir::locate(): None, or the library folders in the order of
\* libraryfolders.paths
SteamViews ==
    {None} \cup {Some(l) : l \in UNION {[1..n -> LibraryFolders] : n \in 0..MaxLibraries}}

LibraryPath(i) == <<"library", i>>

\* a loop that goes on to the next library folder when this one's manifest
\* does not lead to a directory
RECURSIVE HoiFromSkipping(_, _)
HoiFromSkipping(libs, i) ==
    IF i > Len(libs) THEN SomeErr("Could not find hoi directory")
    ELSE IF libs[i].manifest = None THEN HoiFromSkipping(libs, i + 1)
    ELSE LET cps == FirstCapture(libs[i].manifest[1])
         IN  IF cps = None \/ cps[1] \notin libs[i].dirs
             THEN HoiFromSkipping(libs, i + 1)
             ELSE [tag |-> "Ok", path |-> <<LibraryPath(i), "common", cps[1]>>]

\* the for loop from library folder i on
RECURSIVE HoiFrom(_, _)
HoiFrom(libs, i) ==
    IF i > Len(libs) THEN SomeErr("Could not find hoi directory")
    ELSE IF libs[i].manifest = None THEN HoiFrom(libs, i + 1)
    ELSE LET cps == FirstCapture(libs[i].manifest[1])
         IN  IF cps = None THEN SomeErr("Could not find installdir")
             ELSE IF cps[1] \notin libs[i].dirs
             THEN SomeErr("Could not find hoi directory")
             ELSE [tag |-> "Ok", path |-> <<LibraryPath(i), "common", cps[1]>>]

GetHoiFolder(st) ==
    IF st = None THEN SomeErr("Could not find steam directory")
    ELSE HoiFrom(st[1], 1)

\* get_hoi_folder().await runs to its return
HoiCall ==
    /\ hoiPc = "idle"
    /\ hoiPc' = "returned"
    /\ hoiOut' = GetHoiFolder(steam)
    /\ UNCHANGED steam
    /\ UNCHANGED <<clientVars, pumpVars, queries, callVars, relayVars, scanVars>>
    /\ UNCHANGED sdkVars

\* get_hoi_folder on its own, over every view of the disk
HoiInit == PluginInit /\ steam \in SteamViews
HoiNext == HoiCall
HoiSpec == HoiInit /\ [][HoiNext]_vars

\* ================================================================ claims
InWait == {"lock_slot", "check", "waiting", "woken"}
Parked == {"waiting", "woken"}
LockError == SomeErr("client is null")
QuerySubmission == SomeErr("Cannot query item")

\* C1: no thread holds the client lock while it is blocked waiting for a query
\* result: a get_workshop_item call holds it only between lock() and the end of
\* the let statement, never in wait_while; need_workshop_item holds it only
\* while submitting and has no waiting position at all.
C1_NoClientLockWhileWaiting ==
    /\ \A c \in Calls :
        /\ callPc[c] \in InWait => clientHolder # CallThread(c)
        /\ clientHolder = CallThread(c) => callPc[c] \in {"query", "end_let"}
    /\ \A e \in Events :
        /\ relayPc[e] \in {"idle", "lock_client", "query", "end_fn", "done"}
        /\ clientHolder = EventThread(e) => relayPc[e] \in {"query", "end_fn"}

\* a call is parked on its Condvar while another thread holds the client lock
C1_Witness ==
    \E c \in Calls :
        /\ callPc[c] = "waiting"
        /\ clientHolder \notin {NoThread, CallThread(c)}

\* C2: the slot of a call is written at most once; it is written exactly once
\* once the call's completion callback has run, and it is empty until then.
C2_SlotWrittenOnce ==
    \A c \in Calls :
        /\ slotWrites[c] \in {0, 1}
        /\ slotWrites[c] = 1 <=> queries[CallThread(c)] = "fired"
        /\ slotWrites[c] = 0 <=> slot[c] = NoneSlot

\* a callback has filled a slot, the caller has returned, and ticks go on
C2_Witness ==
    \E c \in Calls :
        /\ slotWrites[c] = 1
        /\ callPc[c] = "returned"
        /\ pumpPc = "running"

\* C3: under FairSpec (the pump is ticked again and again, the SDK completes
\* every accepted query), every call whose submission succeeded eventually
\* returns a terminal value, a descriptor or an error.
C3_SubmittedCallReturns ==
    \A c \in Calls :
        (result[c].tag = "Ok") ~>
            (callPc[c] = "returned" /\ ret[c].tag \in {"Ok", "Err"})

\* a call that parked on its Condvar has returned a descriptor
C3_Witness ==
    \E c \in Calls :
        /\ callPc[c] = "returned"
        /\ waited[c]
        /\ ret[c].tag = "Ok"

\* C4: a call whose submission succeeded returns only in a step that finds its
\* slot already filled by its own callback, and returns exactly the value in
\* the slot; no other step (timeout, cancellation) takes it to its return.
C4_ReturnsOnlyAfterFill ==
    [][\A c \in Calls :
        (result[c].tag = "Ok" /\ callPc[c] # "returned" /\ callPc'[c] = "returned")
        => /\ callPc[c] = "check"
           /\ slotWrites[c] = 1
           /\ queries[CallThread(c)] = "fired"
           /\ slot[c] # NoneSlot
           /\ ret'[c] = slot[c]]_vars

\* a call that parked has returned the value its callback wrote
C4_Witness ==
    \E c \in Calls :
        /\ callPc[c] = "returned"
        /\ waited[c]
        /\ slotWrites[c] = 1
        /\ ret[c] = slot[c]
        /\ ret[c].tag = "Err"

\* a call that can still move, or that waits for something that can
CallCanProgress(c) ==
    \/ callPc[c] \in {"idle", "query", "end_let", "check", "returned"}
    \/ /\ callPc[c] = "lock_client"
       /\ \/ clientHolder = NoThread
          \/ \E d \in Calls :
                clientHolder = CallThread(d) /\ callPc[d] \in {"query", "end_let"}
          \/ \E e \in Events :
                clientHolder = EventThread(e) /\ relayPc[e] \in {"query", "end_fn"}
          \/ \E s \in Scans : clientHolder = ScanThread(s) /\ scanPc[s] = "scan"
    \/ /\ callPc[c] \in {"lock_slot", "woken"}
       /\ slotHolder[c] = NoThread
    \/ /\ callPc[c] = "waiting"
       /\ queries[CallThread(c)] \in {"pending", "ready"}
       /\ slotHolder[c] = NoThread

\* C5: concurrent calls complete independently: a callback fills the slot of
\* its own call and of no other, wakes no other call, and in no reachable
\* state is a call stuck behind another call (no deadlock).
C5_CallsIndependent ==
    /\ [](\A c \in Calls : CallCanProgress(c))
    /\ [][\A c \in Calls :
            (queries[CallThread(c)] = "ready" /\ queries'[CallThread(c)] = "fired")
            => /\ slotWrites'[c] = slotWrites[c] + 1
               /\ \A d \in Calls \ {c} :
                    /\ slot'[d] = slot[d]
                    /\ slotWrites'[d] = slotWrites[d]
                    /\ callPc'[d] = callPc[d]]_vars

\* two calls with different ids: one has returned its descriptor while the
\* other, submitted as well, is still parked
C5_Witness ==
    \E c, d \in Calls :
        /\ callId[c] # callId[d]
        /\ callPc[c] = "waiting"
        /\ queries[CallThread(c)] \in {"pending", "ready"}
        /\ callPc[d] = "returned"
        /\ ret[d].tag = "Ok"

\* C6: a call that returns a descriptor returns one whose id is the id it was
\* called with.
C6_ReturnsRequestedId ==
    \A c \in Calls :
        (callPc[c] = "returned" /\ ret[c].tag = "Ok") => ret[c].item.id = callId[c]

\* C7: a pump tick is never blocked by a waiting caller: the tick can start
\* whenever the loop is idle, it never needs the client lock, and every
\* callback it has to run finds its slot mutex free or held by a caller that is
\* about to release it (never by a parked caller).
C7_PumpNeverBlocked ==
    /\ pumpPc = "idle" => ENABLED TickBegin
    /\ pumpHolder \in {NoThread, PumpThread}
    /\ \A c \in Calls :
        /\ callPc[c] \in Parked => slotHolder[c] = NoThread
        /\ slotHolder[c] # NoThread =>
              slotHolder[c] = CallThread(c) /\ callPc[c] = "check"
    /\ pumpPc = "running" =>
        /\ \A c \in Calls :
              queries[CallThread(c)] = "ready" =>
                  ENABLED RunCallCallback(c) \/ callPc[c] = "check"
        /\ \A e \in Events :
              queries[EventThread(e)] = "ready" => ENABLED RunRelayCallback(e)
        /\ (\A t \in QueryThreads : queries[t] # "ready") => ENABLED TickEnd

\* a tick is running a callback's turn while one caller is parked and another
\* thread holds the client lock
C7_Witness ==
    /\ pumpPc = "running"
    /\ clientHolder # NoThread
    /\ \E c \in Calls :
        /\ callPc[c] = "waiting"
        /\ queries[CallThread(c)] = "ready"
        /\ ENABLED RunCallCallback(c)

\* C8 as stated: a query is registered under the client lock, the lock is
\* released before the submitting call goes on, and the callback of the query
\* runs during a tick only after the submitter has released the client lock.
C8_CallbackAfterRelease ==
    [][\A t \in QueryThreads :
        /\ (queries[t] = "none" /\ queries'[t] = "pending") => clientHolder = t
        /\ (queries[t] = "ready" /\ queries'[t] = "fired")
           => pumpPc = "running" /\ clientHolder # t]_vars

\* C8 as amended: a query is registered under the client lock; the lock is
\* released when the submission ends (before a call starts to wait, before the
\* relay handler is done); the callback runs later than the registration, on
\* the event-loop thread inside a tick, and neither needs nor changes the
\* client lock.
C8_CallbackOutOfLock ==
    /\ [](/\ \A c \in Calls :
             callPc[c] \in InWait \cup {"returned"} => clientHolder # CallThread(c)
          /\ \A e \in Events :
             relayPc[e] = "done" => clientHolder # EventThread(e))
    /\ [][\A t \in QueryThreads :
            /\ (queries[t] = "none" /\ queries'[t] # "none")
               => clientHolder = t /\ queries'[t] = "pending"
            /\ (queries[t] # "fired" /\ queries'[t] = "fired")
               => /\ queries[t] = "ready"
                  /\ pumpPc = "running"
                  /\ pumpHolder = PumpThread
                  /\ clientHolder' = clientHolder
                  /\ clientPoisoned' = clientPoisoned]_vars

\* the callback of a relayed query has run and emitted, its handler long done
C8_Witness ==
    \E e \in Events :
        /\ queries[EventThread(e)] = "fired"
        /\ relayPc[e] = "done"
        /\ Len(emitted) = 1
        /\ clientHolder # EventThread(e)

\* C9: when the SDK rejects the query at submission, the call returns the
\* submission error without waiting: no callback is registered, the slot stays
\* empty and unwritten, the call never parks, and the client lock is released.
C9_RejectedSubmission ==
    \A c \in Calls :
        result[c] = QuerySubmission =>
            /\ callPc[c] \in {"end_let", "returned"}
            /\ queries[CallThread(c)] = "none"
            /\ slot[c] = NoneSlot
            /\ slotWrites[c] = 0
            /\ ~waited[c]
            /\ callPc[c] = "returned" =>
                  ret[c] = QuerySubmission /\ clientHolder # CallThread(c)

\* a call has returned the submission error
C9_Witness ==
    \E c \in Calls :
        /\ callPc[c] = "returned"
        /\ ret[c] = QuerySubmission
        /\ lockTries[c] = 1

\* C10: lock() fails only on a mutex poisoned by a panic inside a critical
\* section (the scanner's); the call then returns the lock error with no query
\* submitted, no wait and a single lock attempt; and a call that asks for an
\* unpoisoned lock gets it (or finds it poisoned in the meantime).
C10_LockErrorOnlyWhenPoisoned ==
    /\ [][(~clientPoisoned /\ clientPoisoned')
            => \E s \in Scans :
                /\ clientHolder = ScanThread(s)
                /\ scanPc[s] = "scan"
                /\ scanPc'[s] = "panicked"]_vars
    /\ [](\A c \in Calls :
            /\ lockTries[c] <= 1
            /\ result[c] = LockError =>
                /\ clientPoisoned
                /\ callPc[c] \in {"end_let", "returned"}
                /\ queries[CallThread(c)] = "none"
                /\ slotWrites[c] = 0
                /\ ~waited[c]
                /\ callPc[c] = "returned" => ret[c] = LockError)
    /\ [][\A c \in Calls :
            (callPc[c] = "lock_client" /\ callPc'[c] # "lock_client")
            => (clientPoisoned <=> result'[c] = LockError)]_vars
    /\ \A c \in Calls :
            (callPc[c] = "lock_client" /\ ~clientPoisoned)
                ~> (callPc[c] = "query" \/ clientPoisoned)

\* a call has returned the lock error after the scanner panicked under the lock
C10_Witness ==
    \E c \in Calls :
        /\ callPc[c] = "returned"
        /\ ret[c] = LockError
        /\ clientPoisoned

\* C11: the completion callback of get_workshop_item fills its slot from the
\* SDK outcome alone, with exactly one fill per outcome: a transport or query
\* error gives that error; a success without a first record gives the
\* "item is null" error; a success with a first record gives the descriptor
\* made of that record's id, title and description and of the preview URL of
\* index 0, which may be absent.  Before the callback runs the slot is empty.
C11_FillFollowsOutcome ==
    \A c \in Calls :
        LET x == delivered[CallThread(c)]
        IN  IF queries[CallThread(c)] # "fired"
            THEN x = NotDelivered /\ slot[c] = NoneSlot /\ slotWrites[c] = 0
            ELSE /\ x \in SdkResults
                 /\ slotWrites[c] = 1
                 /\ x.tag = "Err" => slot[c] = [tag |-> "Err", msg |-> x.err]
                 /\ (x.tag = "Ok" /\ ~x.rec.present) =>
                        slot[c] = [tag |-> "Err", msg |-> "item is null"]
                 /\ (x.tag = "Ok" /\ x.rec.present) =>
                        slot[c] = [tag |-> "Ok",
                                   item |-> [id |-> x.rec.published_file_id,
                                             name |-> x.rec.title,
                                             description |-> <<x.rec.description>>,
                                             preview |-> x.preview]]

\* one call was answered with a record that has no preview, another with a
\* success that holds no record
C11_Witness ==
    \E c, d \in Calls :
        /\ queries[CallThread(c)] = "fired" /\ queries[CallThread(d)] = "fired"
        /\ delivered[CallThread(c)].tag = "Ok"
        /\ delivered[CallThread(c)].rec.present
        /\ delivered[CallThread(c)].preview = None
        /\ slot[c].tag = "Ok"
        /\ delivered[CallThread(d)].tag = "Ok"
        /\ ~delivered[CallThread(d)].rec.present
        /\ slot[d].tag = "Err"

\* a payload that is present and is the decimal form of a positive integer
ValidPayload(p) == p # NoPayload /\ ParseU64(p).ok /\ ParseU64(p).val > 0

\* the handler has logged one line and returned without touching the client lock
\* or the SDK, and nothing has been emitted for the event
Discarded(e) ==
    /\ relayPc[e] = "done"
    /\ logged[e] = 1
    /\ relayResult[e].tag = "unset"
    /\ queries[EventThread(e)] = "none"
    /\ clientHolder # EventThread(e)
    /\ emittedBy[e] = <<>>

\* C12: an inbound event whose payload is absent or is not a positive integer
\* is logged and discarded: need_workshop_item does not take the client lock,
\* submits no SDK query, and no outbound event is ever emitted for it.
C12_InvalidPayloadDiscarded ==
    \A e \in Events :
        (relayPc[e] # "idle" /\ ~ValidPayload(relayPayload[e])) => Discarded(e)

\* What get_workshop_item returns when the SDK hands x to its callback
FetchReturns(x) == CallbackFills(x)[Len(CallbackFills(x))]

\* C13: need_workshop_item agrees with get_workshop_item on every SDK outcome.
\* For each inbound event at most one got-wokrshop-item event is emitted; it is
\* emitted exactly when get_workshop_item, given the same outcome, would have
\* returned a descriptor, and it carries that descriptor.  Nothing is emitted
\* when the lock is poisoned, the submission fails, the query ends in an error
\* or the result is empty.
C13_RelayMatchesFetch ==
    \A e \in Events :
        LET x == delivered[EventThread(e)]
        IN  /\ Len(emittedBy[e]) <= 1
            /\ Len(emittedBy[e]) <= Len(emitted)
            /\ relayResult[e].tag # "Ok" => queries[EventThread(e)] = "none"
            /\ queries[EventThread(e)] # "fired" =>
                   x = NotDelivered /\ emittedBy[e] = <<>>
            /\ queries[EventThread(e)] = "fired" =>
                   emittedBy[e] = IF FetchReturns(x).tag = "Ok"
                                  THEN <<FetchReturns(x).item>>
                                  ELSE <<>>

\* an event with payload "1" was answered with a record and its descriptor
\* went out
C13_Witness ==
    \E e \in Events :
        /\ ValidPayload(relayPayload[e])
        /\ queries[EventThread(e)] = "fired"
        /\ delivered[EventThread(e)].tag = "Ok"
        /\ delivered[EventThread(e)].rec.present
        /\ Len(emitted) = 1
        /\ emittedBy[e] = <<emitted[1]>>
        /\ emitted[1].preview # None

\* C14: need_workshop_item never waits for its query.  Once the handler holds
\* the client lock its next step (submit, then return) can always be taken,
\* whatever the pump and the SDK are doing, and those steps leave the pump and
\* the emitted events alone; the outbound event is emitted only afterwards, by
\* the completion callback running inside run_callbacks on the pump thread.
C14_RelayNeverWaits ==
    /\ [](\A e \in Events :
            relayPc[e] \in {"query", "end_fn"} =>
                /\ clientHolder = EventThread(e)
                /\ ENABLED (RelayQuery(e) \/ RelayReturn(e)))
    /\ [][\A e \in Events :
            /\ relayPc'[e] # relayPc[e] =>
                   /\ emitted' = emitted
                   /\ pumpPc' = pumpPc
                   /\ \/ queries' = queries
                      \/ /\ relayPc[e] = "query"
                         /\ queries[EventThread(e)] = "none"
                         /\ queries'[EventThread(e)] = "pending"
            /\ emittedBy'[e] # emittedBy[e] =>
                   /\ pumpPc = "running" /\ pumpHolder = PumpThread
                   /\ queries[EventThread(e)] = "ready"
                   /\ relayPc[e] \in {"end_fn", "done"}
                   /\ relayPc'[e] = relayPc[e]]_vars

\* the handler has returned while its query is still unanswered and the pump
\* is outside run_callbacks
C14_Witness ==
    \E e \in Events :
        /\ relayPc[e] = "done"
        /\ queries[EventThread(e)] = "pending"
        /\ pumpPc = "idle"
        /\ emitted = <<>>

\* calls and events that have made their query_item call
CallsSubmitted ==
    {c \in Calls : callPc[c] \notin {"idle", "lock_client", "query"}
                   /\ result[c] # LockError}
EventsSubmitted == {e \in Events : relayResult[e].tag # "unset"}

\* C15: nothing is cached or shared between invocations.  Every
\* get_workshop_item call and every need-wokrshop-item event that reaches the
\* submission makes its own query_item call, also for an id that was queried
\* before, so the number of query_item calls equals the number of calls and
\* events that reached the submission; every accepted submission has a query
\* of its own; a call's slot stays empty until its own callback runs, and the
\* value a call returns from its slot is the one its own query was answered
\* with, never the value in another call's slot.
C15_NoCaching ==
    /\ queryItemCalls = Cardinality(CallsSubmitted) + Cardinality(EventsSubmitted)
    /\ \A c \in Calls :
        /\ (c \in CallsSubmitted /\ result[c].tag = "Ok")
               <=> queries[CallThread(c)] # "none"
        /\ queries[CallThread(c)] # "fired" => slot[c] = NoneSlot
        /\ (callPc[c] = "returned" /\ result[c].tag = "Ok") =>
               /\ queries[CallThread(c)] = "fired"
               /\ ret[c] = FetchReturns(delivered[CallThread(c)])
    /\ \A e \in Events :
        (e \in EventsSubmitted /\ relayResult[e].tag = "Ok")
            <=> queries[EventThread(e)] # "none"

\* two calls for the same id made two query_item calls and returned the
\* different answers their own queries got
C15_Witness ==
    \E c, d \in Calls :
        /\ c # d /\ callId[c] = callId[d]
        /\ callPc[c] = "returned" /\ callPc[d] = "returned"
        /\ queryItemCalls = 2
        /\ ret[c].tag = "Ok" /\ ret[d].tag = "Err"

\* the subscribed entries flagged installed, in enumeration order
InstalledEntries(in) == SelectSeq(in, LAMBDA r : r.installed)

\* C16: a get_subscribed_workshop_items call that returns, returns exactly one
\* LocalWorkshopItem for each subscribed id whose state includes INSTALLED, in
\* the order of subscribed_items(), carrying that id's install folder and size
\* on disk, and no item for a subscribed id that is not installed.
C16_ScanListsInstalled ==
    \A s \in Scans :
        scanPc[s] = "returned" =>
            LET in == scanIn[s]
                out == scanOut[s]
            IN  /\ Len(out) = Len(InstalledEntries(in))
                /\ \A i \in 1..Len(out) :
                    /\ out[i].id = InstalledEntries(in)[i].id
                    /\ \E j \in 1..Len(in) :
                        /\ in[j].id = out[i].id
                        /\ in[j].installed
                        /\ in[j].info = <<[folder |-> out[i].path,
                                           size_on_disk |-> out[i].size_on_disk]>>
                /\ \A j \in 1..Len(in) :
                    ~in[j].installed =>
                        \A i \in 1..Len(out) : out[i].id # in[j].id

\* a scan of two subscribed ids, the first not installed (and without install
\* info), the second installed, returned the second alone
C16_Witness ==
    \E s \in Scans :
        /\ scanPc[s] = "returned"
        /\ Len(scanIn[s]) = 2
        /\ ~scanIn[s][1].installed /\ scanIn[s][1].info = None
        /\ scanIn[s][2].installed
        /\ Len(scanOut[s]) = 1
        /\ scanOut[s][1].id = scanIn[s][2].id

\* an entry flagged installed for which item_install_info gives None
MissingInfo(in) == \E j \in 1..Len(in) : in[j].installed /\ in[j].info = None

\* C17: when a subscribed id is flagged installed but has no install info,
\* get_subscribed_workshop_items fails as a whole: the call panics and returns
\* nothing, neither the items that precede the bad one nor a list that leaves
\* it out; a call that returns has found install info for every installed id.
C17_ScanFailsWithoutInfo ==
    \A s \in Scans :
        /\ (scanPc[s] \in {"returned", "panicked"} /\ MissingInfo(scanIn[s])) =>
               scanPc[s] = "panicked" /\ scanOut[s] = <<>>
        /\ scanPc[s] = "panicked" => scanOut[s] = <<>>
        /\ scanPc[s] \in {"idle", "lock_client", "scan"} =>
               scanIn[s] = <<>> /\ scanOut[s] = <<>>

\* the scan met an installed id with install info and then one without, and
\* panicked without returning the first
C17_Witness ==
    \E s \in Scans :
        /\ scanPc[s] = "panicked"
        /\ Len(scanIn[s]) = 2
        /\ scanIn[s][1].installed /\ scanIn[s][1].info # None
        /\ scanIn[s][2].installed /\ scanIn[s][2].info = None
        /\ scanOut[s] = <<>>

Contains(s, sub) ==
    \E p \in 1..(Len(s) - Len(sub) + 1) : SubSeq(s, p, p + Len(sub) - 1) = sub
WhiteSpaces == {<<" ">>, <<"\t">>, <<"\t", "\t">>}

\* the values a manifest gives for the key written in quotes: "installdir" "d"
QuotedKeyValues(m) ==
    {d \in DirNames : \E ws \in WhiteSpaces :
        Contains(m, Quote \o InstalldirKey \o Quote \o ws \o Quote \o d \o Quote)}

\* the values a manifest gives for the key in a line of the form key "value",
\* the key written bare or in quotes
KeyValues(m) ==
    QuotedKeyValues(m) \cup
    {d \in DirNames : \E ws \in WhiteSpaces :
        Contains(m, InstalldirKey \o ws \o Quote \o d \o Quote)}

\* index of the first library folder that holds a manifest, 0 when none does
FirstWithManifest(libs) ==
    IF \E i \in 1..Len(libs) : libs[i].manifest # None
    THEN SetMin({i \in 1..Len(libs) : libs[i].manifest # None})
    ELSE 0

C19_NoLostWakeup ==
    /\ [](\A c \in Calls :
            /\ callPc[c] = "waiting" =>
                   slot[c] = NoneSlot /\ queries[CallThread(c)] # "fired"
            /\ (slot[c] # NoneSlot /\ ~waited[c]) =>
                   callPc[c] \in {"end_let", "lock_slot", "check", "returned"})
    /\ [][\A c \in Calls :
            /\ (slot[c] # NoneSlot /\ ~waited[c]) => ~waited'[c]
            /\ (callPc[c] = "check" /\ slot[c] # NoneSlot /\ callPc'[c] # "check") =>
                   callPc'[c] = "returned" /\ ret'[c] = slot[c]]_vars
    /\ \A c \in Calls : (slot[c] # NoneSlot) ~> (callPc[c] = "returned")

\* the callback filled the slot before the caller took the slot lock for the
\* first time, and the caller has returned the value without ever waiting
C19_Witness ==
    \E c \in Calls :
        /\ callPc[c] = "returned"
        /\ ~waited[c]
        /\ slotWrites[c] = 1
        /\ ret[c] = slot[c]
        /\ ret[c].tag = "Ok"

\* C20: get_subscribed_workshop_items holds the client lock for its whole run,
\* so its panic on missing install info happens under the lock and poisons it,
\* and the poison never goes away.  From then on every get_workshop_item call
\* that reaches the lock gets the "client is null" error, submits nothing and
\* returns that error; every inbound event that reaches the lock is logged and
\* dropped, with no query and no outbound event; every later scan panics at
\* the lock; and a get_workshop_item call whose query was submitted before is
\* still answered through the pump and returns.
C20_PanicPoisonsForGood ==
    /\ [](\A s \in Scans : scanPc[s] = "scan" => clientHolder = ScanThread(s))
    /\ [][/\ clientPoisoned => clientPoisoned'
          /\ \A s \in Scans :
              /\ (scanPc[s] = "scan" /\ scanPc'[s] = "panicked") =>
                     MissingInfo(scanIn'[s]) /\ clientPoisoned'
              /\ (clientPoisoned /\ scanPc[s] = "lock_client"
                  /\ scanPc'[s] # "lock_client") =>
                     /\ scanPc'[s] = "panicked"
                     /\ scanOut'[s] = <<>>
                     /\ clientHolder' = clientHolder
          /\ \A c \in Calls :
              (clientPoisoned /\ callPc[c] = "lock_client"
               /\ callPc'[c] # "lock_client") =>
                  /\ result'[c] = LockError
                  /\ queries' = queries
                  /\ queryItemCalls' = queryItemCalls
          /\ \A e \in Events :
              (clientPoisoned /\ relayPc[e] = "lock_client"
               /\ relayPc'[e] # "lock_client") =>
                  /\ relayPc'[e] = "done"
                  /\ logged'[e] = logged[e] + 1
                  /\ queries' = queries
                  /\ queryItemCalls' = queryItemCalls
                  /\ emitted' = emitted]_vars
    /\ [](\A c \in Calls :
            result[c] = LockError =>
                /\ queries[CallThread(c)] = "none"
                /\ callPc[c] = "returned" => ret[c] = LockError)
    /\ [](\A e \in Events :
            (clientPoisoned /\ relayPc[e] = "done" /\ relayResult[e].tag = "unset") =>
                logged[e] = 1 /\ emittedBy[e] = <<>>)
    /\ \A c \in Calls :
        (clientPoisoned /\ callPc[c] = "lock_client")
            ~> (callPc[c] = "returned" /\ ret[c] = LockError)
    /\ \A c \in Calls :
        (clientPoisoned /\ queries[CallThread(c)] # "none")
            ~> (callPc[c] = "returned" /\ queries[CallThread(c)] = "fired"
                /\ ret[c] = slot[c])

\* a scan panicked on missing install info and the scan made after it panicked
\* at the lock
C20_Witness ==
    \E s, t \in Scans :
        /\ s # t
        /\ scanPc[s] = "panicked" /\ MissingInfo(scanIn[s])
        /\ scanPc[t] = "panicked" /\ scanIn[t] = <<>>
        /\ clientPoisoned
        /\ clientHolder = NoThread

====
